---- MODULE Spec2Model ----
(***************************************************************************)
(* State-machine model of the SDL sound back end (SoundSDL): the control   *)
(* operations open / openDevice / setVolume / adjustVolume / mute / pause, *)
(* the "next fragment" pull with its underrun hysteresis, and the device   *)
(* callback.  The fragment queue (AudioQueue), the resampler and the       *)
(* settings / timing objects are collaborators whose code is not part of   *)
(* the translated file; they are modelled from the design document.        *)
(*                                                                         *)
(* Conventions:                                                            *)
(*  - a fragment is named by its sequence number 1, 2, ...; 0 is nullptr;  *)
(*  - the volume factor (a float in [0,1]) is kept in hundredths, so       *)
(*    static_cast<float>(volume) / 100.F is the integer volume and a       *)
(*    sample multiplied by the factor is sample * factor (scaled by 100);  *)
(*  - a driver buffer of len bytes is a sequence of len / 4 float slots;   *)
(*    channel interleaving is not modelled;                                *)
(*  - the clip player (WavHandlerSDL): an asset and the buffer decoded     *)
(*    from it are named by the asset's number, 0 is no file / nullptr;     *)
(*    myPos is an offset in frames, and posLive tells whether it points    *)
(*    into the buffer that is allocated now.                               *)
(***************************************************************************)
EXTENDS Integers, Sequences, FiniteSets, TLC

\* ------------------------------------------------------------------ bounds
Capacity == 2
MaxFrags == 4
MaxPrebuffer == 2
FragmentSize == 2
MaxLength == 2
MaxClip == 2

\* Abstract sample rates (the model's stand-ins for 31400 / 44100 / 48000 Hz).
Rates == {2, 3}

\* The range of int / Int32.  (The model checker's integers are 32 bits wide too,
\* so wider values are never formed: see AdjustOverflows and Wrap32Sum.)
Int32Max == 2147483647
Int32Min == (0 - Int32Max) - 1
Two30 == 1073741824

\* AudioSettings::ResamplingQuality; "invalid" is any other enumerator value.
Qualities == {"nearestNeighbour", "lanczos_2", "lanczos_3", "invalid"}

VARIABLES
  \* SoundSDL
  myIsInitializedFlag, devPaused, hwFreq, myVolumeFactor,
  myAudioQueue, myResampler, myUnderrun, myCurrentFragment,
  \* the main device handles open in the driver
  devHandles,
  \* EmulationTiming (as last handed to open)
  prebuffer, emuRate,
  \* AudioSettings
  enabled, volume, sampleRate, quality,
  \* AudioQueue
  queue, ignoreOverflows,
  \* producer (emulation core)
  produced,
  \* device callback in flight
  cbPc, cbLength, cbI, stream,
  \* history of the run, read only by the properties
  written, resampled, gain, cbBranch, cbPulls, lastPull, consumed, overflowed,
  streak, cycle, enqRun, deqRun, lastOp, played, ctl,
  \* WavHandlerSDL (the clip player)
  myFilename, myBuffer, myLength, myRemaining, myPos, wavDevice, wavPaused,
  mySpeed, myCvtBuffer, myCvtBufferSize,
  \* history of the clip player, read only by the properties
  posLive, lastWav

soundVars == <<myIsInitializedFlag, devHandles, devPaused, hwFreq, myVolumeFactor,
               myAudioQueue, myResampler, myUnderrun, myCurrentFragment,
               prebuffer, emuRate>>
settingsVars == <<enabled, volume, sampleRate, quality>>
queueVars == <<queue, ignoreOverflows>>
cbVars == <<cbPc, cbLength, cbI, stream, written, resampled, gain, cbBranch, cbPulls>>
histVars == <<lastPull, consumed, overflowed, streak, cycle, enqRun, deqRun, lastOp,
              played, ctl>>
\* The clip player's data, and with its device and speed the whole of it.
wavData == <<myFilename, myBuffer, myLength, myRemaining, myPos,
             myCvtBuffer, myCvtBufferSize, posLive, lastWav>>
clipVars == <<wavData, wavDevice, wavPaused, mySpeed>>
vars == <<soundVars, settingsVars, queueVars, produced, cbVars, histVars, clipVars>>

\* ------------------------------------------------------------ small helpers
Min(a, b) == IF a < b THEN a ELSE b

\* BSPF::clamp
clamp(v, lo, hi) == IF v < lo THEN lo ELSE IF v > hi THEN hi ELSE v

NoResampler ==
  [kind |-> "none", a |-> 0, from |-> 0, to |-> 0, quality |-> "none",
   frag |-> 0, idx |-> 0, time |-> 0, hist |-> <<>>]

NoPull ==
  [valid |-> FALSE, underrun |-> FALSE, size |-> 0, prev |-> 0,
   frag |-> 0, dequeues |-> 0, removed |-> 0,
   pre |-> 0, streak |-> FALSE, cycle |-> FALSE, played |-> FALSE]

NoOp ==
  [op |-> "none", arg |-> 0, before |-> 0, initBefore |-> FALSE,
   initAfter |-> FALSE, overflow |-> FALSE]

\* The record of the last control operation, for the specifications that keep
\* one: the operation and its argument, what it found (initialized flag,
\* device paused, sound enabled, quality valid), and what open() did
\* (re-opened the device, threw, left the device paused; replaced the queue /
\* resampler association with the device running, with a callback in flight).
NoCtl ==
  [op |-> "none", arg |-> 0, init |-> FALSE, paused |-> TRUE,
   enabled |-> FALSE, valid |-> FALSE, reopened |-> FALSE, threw |-> FALSE,
   pausedAfter |-> TRUE, live |-> FALSE, inFlight |-> FALSE]

\* The clip player as constructed: nothing loaded, no device, no scratch
\* buffer.  live: myPos points into the buffer that is allocated now.
NoClip ==
  [filename |-> 0, buffer |-> 0, length |-> 0, remaining |-> 0, pos |-> 0,
   live |-> FALSE, device |-> FALSE, paused |-> TRUE,
   cvt |-> FALSE, cvtSize |-> 0]

\* The record of the last clip player event (play, stop, a callback of the
\* clip device, or the destructor): its inputs, what play returned and what
\* SDL_LoadWAV did if called, whether play came next after a stop() with the
\* same asset's name cached, whether it opened a device, how many source
\* frames the callback consumed and whether it read them from outside the
\* buffer held, how many frames it mixed and the driver buffer it left.
NoWav ==
  [op |-> "none", ok |-> FALSE, cause |-> "none", file |-> 0, position |-> 0,
   length |-> 0, load |-> "none", afterStop |-> FALSE, opened |-> FALSE,
   len |-> 0, used |-> 0, outside |-> FALSE, mixed |-> 0, out |-> <<>>]

\* 262 * 60 * 2, the clip rate the speed is taken against, on the scale of
\* Rates.
SpeedScale == 4

\* The 16-bit sample at position i of fragment f (non-zero, all distinct).
Sample(f, i) == f * 10 + i + 1

\* ------------------------------------------------------------------- state
\* The part of the state the handlers work on, as one record.
View ==
  [init |-> myIsInitializedFlag, handles |-> devHandles, paused |-> devPaused,
   hwFreq |-> hwFreq,
   factor |-> myVolumeFactor, attached |-> myAudioQueue,
   resampler |-> myResampler, underrun |-> myUnderrun,
   current |-> myCurrentFragment, prebuffer |-> prebuffer, emuRate |-> emuRate,
   enabled |-> enabled, volume |-> volume, sampleRate |-> sampleRate,
   quality |-> quality, queue |-> queue, ignore |-> ignoreOverflows,
   wavDevice |-> wavDevice, wavPaused |-> wavPaused, speed |-> mySpeed,
   threw |-> FALSE]

Commit(m) ==
  /\ myIsInitializedFlag' = m.init
  /\ devHandles' = m.handles
  /\ devPaused' = m.paused
  /\ hwFreq' = m.hwFreq
  /\ myVolumeFactor' = m.factor
  /\ myAudioQueue' = m.attached
  /\ myResampler' = m.resampler
  /\ myUnderrun' = m.underrun
  /\ myCurrentFragment' = m.current
  /\ prebuffer' = m.prebuffer
  /\ emuRate' = m.emuRate
  /\ enabled' = m.enabled
  /\ volume' = m.volume
  /\ sampleRate' = m.sampleRate
  /\ quality' = m.quality
  /\ queue' = m.queue
  /\ ignoreOverflows' = m.ignore
  /\ wavPaused' = m.wavPaused
  /\ mySpeed' = m.speed

Init ==
  \* SoundSDL::SoundSDL: openDevice() succeeded or failed; a device that was
  \* opened starts paused.
  /\ myIsInitializedFlag \in BOOLEAN
  /\ devHandles = (IF myIsInitializedFlag THEN 1 ELSE 0)
  /\ devPaused = TRUE
  /\ hwFreq \in (IF myIsInitializedFlag THEN Rates ELSE {0})
  /\ myVolumeFactor = 0
  /\ myAudioQueue = FALSE
  /\ myResampler = NoResampler
  /\ myUnderrun = FALSE
  /\ myCurrentFragment = 0
  /\ prebuffer = 1
  /\ emuRate = 2
  /\ enabled \in BOOLEAN
  /\ volume = 50
  /\ sampleRate = 2
  /\ quality \in Qualities
  /\ queue = <<>>
  /\ ignoreOverflows = FALSE
  /\ produced = 0
  /\ cbPc = "idle"
  /\ cbLength = 0
  /\ cbI = 0
  /\ stream = <<>>
  /\ written = {}
  /\ resampled = <<>>
  /\ gain = <<>>
  /\ cbBranch = "none"
  /\ cbPulls = 0
  /\ lastPull = NoPull
  /\ consumed = <<>>
  /\ overflowed = FALSE
  /\ streak = FALSE
  /\ cycle = FALSE
  /\ enqRun = 0
  /\ deqRun = 0
  /\ lastOp = NoOp
  /\ played = FALSE
  /\ ctl = NoCtl
  \* WavHandlerSDL: nothing loaded, no device, speed 1.0
  /\ myFilename = 0
  /\ myBuffer = 0
  /\ myLength = 0
  /\ myRemaining = 0
  /\ myPos = 0
  /\ wavDevice = FALSE
  /\ wavPaused = TRUE
  /\ mySpeed = [num |-> 1, den |-> 1]
  /\ myCvtBuffer = FALSE
  /\ myCvtBufferSize = 0
  /\ posLive = FALSE
  /\ lastWav = NoWav

\* --------------------------------------------------------------- AudioQueue
\* A bounded FIFO of fragments behind one mutex: every call is atomic.
QueueSize(q) == Len(q)

\* dequeue(previous): the oldest fragment, or nullptr (0) at once when none
\* is ready; previous goes back to the pool.
QueueDequeue(q) ==
  IF q = <<>> THEN [frag |-> 0, queue |-> q]
  ELSE [frag |-> Head(q), queue |-> Tail(q)]

\* What a full queue does with a new fragment in overflow-ignore mode is a
\* matter of configuration; every enqueue may go either way.
OverflowPolicies == {"dropOldest", "dropNewest"}

EnqueueBlockedWhenFull(q, ignore) == Len(q) >= Capacity

\* The producer waits only when the queue is full and overflows count.
EnqueueBlocked(q, ignore) == Len(q) >= Capacity /\ ~ignore

QueueEnqueueGrow(q, f, policy) == Append(q, f)

\* enqueue(f) on a queue that is not blocked: a full queue drops the oldest
\* fragment or the new one, as configured.
QueueEnqueue(q, f, policy) ==
  IF Len(q) < Capacity THEN Append(q, f)
  ELSE IF policy = "dropOldest" THEN Append(Tail(q), f)
  ELSE q

\* ------------------------------------------------------ SoundSDL, control
setVolumeClamped(m, v) ==
  IF m.init
    THEN [m EXCEPT !.volume = Min(v, 100),
                   !.factor = IF m.enabled THEN Min(v, 100) ELSE 0]
    ELSE m

setVolumeUnchecked(m, v) ==
  IF m.init
    THEN [m EXCEPT !.volume = v, !.factor = IF m.enabled THEN v ELSE 0]
    ELSE m

setVolume(m, v) ==
  IF m.init /\ v <= 100
    THEN [m EXCEPT !.volume = v, !.factor = IF m.enabled THEN v ELSE 0]
    ELSE m

muteKeepsFactor(m, enable) ==
  IF enable THEN m ELSE setVolume(m, m.volume)

mute(m, enable) ==
  IF enable THEN [m EXCEPT !.factor = 0] ELSE setVolume(m, m.volume)

\* WavHandlerSDL::pause: an open clip device follows.
wavPause(m, state) ==
  IF m.wavDevice THEN [m EXCEPT !.wavPaused = state] ELSE m

\* SDL_PauseAudioDevice on the main device, then the clip player's pause.
pause(m, enable) ==
  IF m.init THEN wavPause([m EXCEPT !.paused = enable], enable) ELSE m

setEnabled(m, enable) == pause(mute(m, ~enable), ~enable)

\* A toggleMute that mutes whatever the factor is.
toggleMuteOnly(m) == mute(m, TRUE)

\* wasMuted = myVolumeFactor == 0; mute(!wasMuted)
toggleMute(m) == mute(m, ~(m.factor = 0))

\* ok / freq: what SDL_OpenAudioDevice answers (the frequency may differ from
\* the desired one: SDL_AUDIO_ALLOW_FREQUENCY_CHANGE).  A device that has just
\* been opened is paused; a closed one runs no callback.
\* An openDevice that opens the new handle with the old one left open.
CloseDeviceNever(m) == m

\* if(myIsInitializedFlag) SDL_CloseAudioDevice(myDevice)
CloseDevice(m) ==
  IF m.init THEN [m EXCEPT !.handles = @ - 1] ELSE m

openDevice(m, ok, freq) ==
  LET m1 == CloseDevice(m)
  IN  IF ok THEN [m1 EXCEPT !.init = TRUE, !.handles = @ + 1,
                            !.paused = TRUE, !.hwFreq = freq]
      ELSE [m1 EXCEPT !.init = FALSE, !.paused = TRUE]

\* The fragment size and the device id of the settings are taken to agree
\* with the hardware spec; the sample rate decides.
NeedsReopen(m) == m.sampleRate # m.hwFreq

ValidQualityAny(q) == TRUE

ValidQuality(q) == q \in {"nearestNeighbour", "lanczos_2", "lanczos_3"}

NewResampler(kind, a, from, to, q) ==
  [kind |-> kind, a |-> a, from |-> from, to |-> to, quality |-> q,
   frag |-> 0, idx |-> 0, time |-> 0, hist |-> <<>>]

\* The switch of initResampler, for a valid quality.
initResampler(m) ==
  [m EXCEPT !.resampler =
     CASE m.quality = "nearestNeighbour" ->
            NewResampler("nearest", 0, m.emuRate, m.hwFreq, m.quality)
       [] m.quality = "lanczos_2" ->
            NewResampler("lanczos", 2, m.emuRate, m.hwFreq, m.quality)
       [] OTHER ->
            NewResampler("lanczos", 3, m.emuRate, m.hwFreq, m.quality)]

\* open(audioQueue, emulationTiming); pre / rate: the timing's prebuffer
\* fragment count and audio sample rate.  An invalid quality makes
\* initResampler throw: the rest of open() is not executed.
IgnoreOverflowsArgEnabled(m) == m.enabled

IgnoreOverflowsArg(m) == ~m.enabled

\* myWavHandler.setSpeed(262 * 60 * 2. / audioSampleRate())
setSpeed(m, rate) == [m EXCEPT !.speed = [num |-> SpeedScale, den |-> rate]]

AttachQueueKeepsFragment(m) == [m EXCEPT !.attached = TRUE]

\* myAudioQueue = audioQueue; myUnderrun = true; myCurrentFragment = nullptr
AttachQueue(m) ==
  [m EXCEPT !.attached = TRUE, !.underrun = TRUE, !.current = 0]

open(m, pre, rate, ok, freq) ==
  LET m1 == IF NeedsReopen(m) THEN openDevice(m, ok, freq) ELSE m
      m2 == setSpeed([m1 EXCEPT !.prebuffer = pre, !.emuRate = rate], rate)
      m3 == [m2 EXCEPT !.ignore = IgnoreOverflowsArg(m2)]
      m4 == AttachQueue(m3)
      m5 == setVolume(m4, m4.volume)
  IN  IF ~m3.enabled THEN m3
      ELSE IF ValidQuality(m5.quality) THEN pause(initResampler(m5), FALSE)
      ELSE [m5 EXCEPT !.threw = TRUE]

\* Console::initializeAudio hands the queue and the timing to open() again.
initializeAudio(m, pre, rate, ok, freq) == open(m, pre, rate, ok, freq)

\* percent + direction * 2 in 32-bit signed arithmetic.  When it overflows
\* the behaviour is undefined: ub picks among wrapping and saturating.
AdjustOverflows(p, direction) ==
  \/ direction > (Int32Max - p) \div 2
  \/ direction < 0 - Two30

\* p + direction * 2 wrapped to 32 signed bits, for a product or a sum that
\* overflows (0 <= p <= 100).
Wrap32Sum(p, direction) ==
  IF direction > 0
    THEN LET t == ((direction - Two30) * 2) + p
         IN  IF t >= 0 THEN t + Int32Min ELSE (t + Int32Max) + 1
    ELSE LET t == ((direction + Two30) * 2) + p
         IN  IF t < 0 THEN (t + Int32Max) + 1 ELSE t + Int32Min

AdjustOutcomes(p, direction) ==
  IF AdjustOverflows(p, direction)
    THEN {Wrap32Sum(p, direction), Int32Max, Int32Min}
    ELSE {p + direction * 2}

AdjustPercent(raw) == clamp(raw, 0, 100)

adjustVolume(m, direction, raw, pre, rate, ok, freq) ==
  LET percent == AdjustPercent(raw)
      m1 == IF percent > 0 /\ direction # 0 /\ ~m.enabled
              THEN initializeAudio(setEnabled(m, TRUE), pre, rate, ok, freq)
              ELSE m
  IN  setVolume(m1, percent)

\* ------------------------------------------- SoundSDL, the pull (the lambda)
\* Whether the lambda calls dequeue: always outside underrun, and in underrun
\* only once the queue holds the prebuffer count.
shouldDequeueAlways(underrun, size, pre) == TRUE

shouldDequeueThreshold(underrun, size, pre) == size >= pre

shouldDequeue(underrun, size, pre) ==
  IF underrun THEN size >= pre ELSE TRUE

\* A pull that dequeues first and applies the threshold to what it got.
nextFragmentCallbackEager(m) ==
  LET size == QueueSize(m.queue)
      d == QueueDequeue(m.queue)
      got == IF shouldDequeue(m.underrun, size, m.prebuffer) THEN d.frag ELSE 0
  IN  [m |-> [m EXCEPT !.queue = d.queue,
                       !.underrun = (got = 0),
                       !.current = IF got # 0 THEN got ELSE m.current],
       frag |-> got,
       log |-> [valid |-> TRUE, underrun |-> m.underrun, size |-> size,
                prev |-> m.current, frag |-> got, dequeues |-> 1,
                removed |-> Len(m.queue) - Len(d.queue),
                pre |-> m.prebuffer, streak |-> FALSE, cycle |-> FALSE,
                played |-> FALSE]]

\* A pull that stores what dequeue returned in the fragment handle, null
\* included.
nextFragmentCallbackStoresNull(m) ==
  LET size == QueueSize(m.queue)
      calls == shouldDequeue(m.underrun, size, m.prebuffer)
      d == IF calls THEN QueueDequeue(m.queue)
           ELSE [frag |-> 0, queue |-> m.queue]
  IN  [m |-> [m EXCEPT !.queue = d.queue,
                       !.underrun = (d.frag = 0),
                       !.current = d.frag],
       frag |-> d.frag,
       log |-> [valid |-> TRUE, underrun |-> m.underrun, size |-> size,
                prev |-> m.current, frag |-> d.frag,
                dequeues |-> IF calls THEN 1 ELSE 0,
                removed |-> Len(m.queue) - Len(d.queue),
                pre |-> m.prebuffer, streak |-> FALSE, cycle |-> FALSE,
                played |-> FALSE]]

\* nextFragmentCallback: the state after the pull, the fragment returned, and
\* a record of what the pull did.
nextFragmentCallback(m) ==
  LET size == QueueSize(m.queue)
      calls == shouldDequeue(m.underrun, size, m.prebuffer)
      d == IF calls THEN QueueDequeue(m.queue)
           ELSE [frag |-> 0, queue |-> m.queue]
  IN  [m |-> [m EXCEPT !.queue = d.queue,
                       !.underrun = (d.frag = 0),
                       !.current = IF d.frag # 0 THEN d.frag ELSE m.current],
       frag |-> d.frag,
       log |-> [valid |-> TRUE, underrun |-> m.underrun, size |-> size,
                prev |-> m.current, frag |-> d.frag,
                dequeues |-> IF calls THEN 1 ELSE 0,
                removed |-> Len(m.queue) - Len(d.queue),
                pre |-> m.prebuffer, streak |-> FALSE, cycle |-> FALSE,
                played |-> FALSE]]

\* ------------------------------------------------------------ WavHandlerSDL
\* The clip player's state as one record.
ClipView ==
  [filename |-> myFilename, buffer |-> myBuffer, length |-> myLength,
   remaining |-> myRemaining, pos |-> myPos, live |-> posLive,
   device |-> wavDevice, paused |-> wavPaused,
   cvt |-> myCvtBuffer, cvtSize |-> myCvtBufferSize]

ClipCommit(w) ==
  /\ myFilename' = w.filename
  /\ myBuffer' = w.buffer
  /\ myLength' = w.length
  /\ myRemaining' = w.remaining
  /\ myPos' = w.pos
  /\ posLive' = w.live
  /\ wavDevice' = w.device
  /\ wavPaused' = w.paused
  /\ myCvtBuffer' = w.cvt
  /\ myCvtBufferSize' = w.cvtSize

\* The assets there are, and the length of each once decoded.
Assets == 1..2
AssetLength(f) == MaxClip - 2 + f

\* SDL_LoadWAV: the asset is decoded; or the file cannot be opened, and the
\* buffer and length arguments are not written; or the file is opened and is
\* not a valid asset, and they are written with null and 0.
LoadOutcomes == {"ok", "missing", "corrupt"}
LoadWAV(w, file, load) ==
  CASE load = "ok" -> [w EXCEPT !.buffer = file, !.length = AssetLength(file)]
    [] load = "corrupt" -> [w EXCEPT !.buffer = 0, !.length = 0]
    [] OTHER -> w

NeedsLoadAlways(w, file) == TRUE

\* play loads the asset unless the one asked for is the one held.
NeedsLoad(w, file) == file # w.filename \/ w.buffer = 0

\* SDL_FreeWAV(myBuffer); myBuffer = nullptr: myPos is left pointing into the
\* freed buffer.
FreeBuffer(w) ==
  IF w.buffer # 0 THEN [w EXCEPT !.buffer = 0, !.live = FALSE] ELSE w

PositionBeyond(position, length) == position > length

\* The frames to play: length of them from position, or all the asset's
\* when length is 0.
ClipRemaining(length, position, assetLength) ==
  IF length # 0 THEN Min(length, assetLength - position) ELSE assetLength

\* stop() that closes the device and keeps the decoded buffer.
stopKeepsBuffer(w) ==
  LET w1 == IF w.buffer # 0
              THEN [w EXCEPT !.remaining = 0, !.device = FALSE, !.paused = TRUE]
              ELSE w
  IN  IF w1.cvt THEN [w1 EXCEPT !.cvt = FALSE, !.cvtSize = 0] ELSE w1

OpensDeviceAlways(w) == TRUE

\* play calls SDL_OpenAudioDevice when it holds no device.
OpensDevice(w) == ~w.device

\* WavHandlerSDL::play; load: what SDL_LoadWAV does if called, devOk: whether
\* SDL_OpenAudioDevice succeeds if called.  A device play opens is resumed.
\* opened: play got a new device handle from SDL_OpenAudioDevice.
play(w, file, position, length, load, devOk) ==
  LET loads == NeedsLoad(w, file)
      w1 == IF loads THEN LoadWAV(FreeBuffer(w), file, load) ELSE w
      w2 == [w1 EXCEPT !.filename = file,
                       !.remaining = ClipRemaining(length, position, w1.length),
                       !.pos = position,
                       !.live = TRUE]
      opens == OpensDevice(w2)
      w3 == IF opens
              THEN [w2 EXCEPT !.device = devOk,
                              !.paused = IF devOk THEN FALSE ELSE @]
              ELSE w2
  IN  IF loads /\ load # "ok"
        THEN [w |-> w1, ok |-> FALSE, cause |-> "load", opened |-> FALSE]
      ELSE IF PositionBeyond(position, w1.length)
        THEN [w |-> w1, ok |-> FALSE, cause |-> "position", opened |-> FALSE]
      ELSE IF ~w3.device
        THEN [w |-> w3, ok |-> FALSE, cause |-> "device", opened |-> FALSE]
      ELSE [w |-> w3, ok |-> TRUE, cause |-> "none", opened |-> opens]

\* WavHandlerSDL::stop.
stop(w) ==
  LET w1 == IF w.buffer # 0
              THEN [w EXCEPT !.remaining = 0, !.device = FALSE,
                             !.paused = TRUE, !.buffer = 0, !.live = FALSE]
              ELSE w
  IN  IF w1.cvt THEN [w1 EXCEPT !.cvt = FALSE, !.cvtSize = 0] ELSE w1

\* WavHandlerSDL::~WavHandlerSDL: with a device open, the device is closed and
\* the buffer freed; the scratch buffer goes with its unique_ptr.  A buffer
\* that is not freed stays allocated with nothing left to free it.
destroyWav(w) ==
  LET w1 == IF w.device
              THEN [w EXCEPT !.device = FALSE, !.paused = TRUE,
                             !.buffer = 0, !.live = FALSE]
              ELSE w
  IN  [w1 EXCEPT !.cvt = FALSE, !.cvtSize = 0]

\* len / mySpeed cut to a whole number.
ConvertedLengthFloor(len, speed) == (len * speed.den) \div speed.num

\* std::round(len / mySpeed), halves away from zero.
ConvertedLength(len, speed) ==
  (2 * len * speed.den + speed.num) \div (2 * speed.num)

\* The frames asked for, whatever remains.
ClipConsumedUnclamped(w, speed, len) ==
  LET l1 == IF speed.num = speed.den THEN len ELSE ConvertedLength(len, speed)
  IN  IF w.remaining = 0 THEN 0 ELSE l1

\* The source frames one callback of len frames consumes.
ClipConsumed(w, speed, len) ==
  LET l1 == IF speed.num = speed.den THEN len ELSE ConvertedLength(len, speed)
  IN  IF w.remaining = 0 THEN 0 ELSE Min(l1, w.remaining)

\* mySpec.freq, the rate of the asset, on a scale where the target rates of
\* the conversion are whole numbers.
ClipFreq == 12

\* newFreq: std::round(mySpec.freq * origLen / len), len before the clamp.
NewFreq(origLen, len) ==
  (2 * ClipFreq * origLen + len) \div (2 * len)

\* SDL_ConvertAudio: the frames that n source frames make at rate newFreq
\* (cvt.len_cvt), rounded up.
ConvertedFrames(n, newFreq) == (n * newFreq + ClipFreq - 1) \div ClipFreq

\* The frames one callback mixes into the driver buffer: the source frames
\* themselves at speed 1, the frames converted from them otherwise.
ClipMixed(w, speed, len) ==
  LET used == ClipConsumed(w, speed, len)
  IN  IF speed.num = speed.den \/ used = 0 THEN used
      ELSE ConvertedFrames(used, NewFreq(len, ConvertedLength(len, speed)))

\* A driver buffer that is left as the driver handed it over.
SilenceFillNone(len) == [i \in 1..len |-> [silence |-> FALSE, mix |-> 0]]

\* SDL_memset(stream, mySpec.silence, len).
SilenceFill(len) == [i \in 1..len |-> [silence |-> TRUE, mix |-> 0]]

\* SDL_MixAudioFormat: the first n frames of the buffer get clip data at the
\* volume factor mixed in.
MixInto(buf, n, factor) ==
  [i \in 1..Len(buf) |-> IF i <= n THEN [buf[i] EXCEPT !.mix = factor] ELSE buf[i]]

\* The driver buffer processWav leaves.
ClipOutput(w, speed, len, factor) ==
  MixInto(SilenceFill(len), ClipMixed(w, speed, len), factor)

ScratchGrowsAlways(w, need) == TRUE

\* The scratch buffer is allocated anew when there is none or the one there
\* is smaller than the conversion needs.
ScratchGrows(w, need) == ~w.cvt \/ w.cvtSize < need

\* WavHandlerSDL::processWav; mult: the len_mult SDL_BuildAudioCVT asks for.
processWav(w, speed, len, mult) ==
  LET used == ClipConsumed(w, speed, len)
      converts == speed.num # speed.den
      need == used * mult
      grows == ScratchGrows(w, need)
  IN  IF w.remaining = 0 THEN w
      ELSE [w EXCEPT !.pos = @ + used,
                     !.remaining = @ - used,
                     !.cvt = IF converts THEN TRUE ELSE @,
                     !.cvtSize = IF converts /\ grows THEN need ELSE @]

\* The callback read source frames that are not in the buffer held: from a
\* freed buffer, or past the end of the buffer.
ReadsOutside(w, used) ==
  used > 0 /\ (~w.live \/ w.buffer = 0 \/ w.pos + used > w.length)

\* The converting path with round(len / mySpeed) = 0: newFreq is a division
\* by zero converted to int, which is undefined, and no frame is consumed.
Stalls(w, speed, len) ==
  /\ w.remaining > 0
  /\ speed.num # speed.den
  /\ ConvertedLength(len, speed) = 0

\* ---------------------------------------------------------------- Resampler
\* Kernel weight of the k-th sample of the window at phase t (an integer
\* stand-in for the windowed sinc).
KernelWeight(a, k, t) == a + k + t

RECURSIVE Convolve(_, _, _, _)
Convolve(a, hist, t, k) ==
  IF k > Len(hist) THEN 0
  ELSE hist[k] * KernelWeight(a, k, t) + Convolve(a, hist, t, k + 1)

\* The last 2a source samples: the 2a-1 carried over and the new one.
PushHistory(a, hist, x) ==
  LET h == Append(hist, x)
  IN  IF Len(h) > 2 * a THEN SubSeq(h, Len(h) - 2 * a + 1, Len(h)) ELSE h

\* One destination sample of fillFragment.  A resampler that holds no source
\* fragment (none yet, or the last one used up) pulls one; with none to be
\* had the sample is silence and the cursor stays.  Otherwise the sample is
\* taken at the cursor and the cursor steps by from/to source samples.
FillSample(m) ==
  LET rs == m.resampler
      pulls == rs.frag = 0
      p == IF pulls THEN nextFragmentCallback(m)
           ELSE [m |-> m, frag |-> rs.frag, log |-> NoPull]
      frag == p.frag
      x == Sample(frag, rs.idx)
      hist == IF rs.kind = "lanczos" THEN PushHistory(rs.a, rs.hist, x) ELSE rs.hist
      out == IF rs.kind = "lanczos" THEN Convolve(rs.a, hist, rs.time, 1) ELSE x
      t == rs.time + rs.from
      i == rs.idx + (t \div rs.to)
      next == [rs EXCEPT !.hist = hist, !.time = t % rs.to,
                         !.idx = i % FragmentSize,
                         !.frag = IF i >= FragmentSize THEN 0 ELSE frag]
  IN  IF frag = 0
        THEN [m |-> p.m, out |-> 0, pulled |-> pulls, log |-> p.log, starved |-> TRUE]
        ELSE [m |-> [p.m EXCEPT !.resampler = next], out |-> out,
              pulled |-> pulls, log |-> p.log, starved |-> FALSE]

\* ------------------------------------------------- SoundSDL::callback
FloatLengthShort(len) == len \div 8

\* len >> 2: the number of float samples in a buffer of len bytes.
FloatLength(len) == len \div 4

CallbackAttachedQueueOnly(m) == m.attached

\* self->myAudioQueue && self->myResampler
CallbackAttached(m) == m.attached /\ m.resampler.kind # "none"

ApplyVolumeNot(s, factor) == s

\* s[i] *= myVolumeFactor
ApplyVolume(s, factor) == s * factor

\* A callback of the main device that pauses the clip device.
CallbackFrameStopsClip ==
  /\ UNCHANGED <<myIsInitializedFlag, devHandles, devPaused, hwFreq, myVolumeFactor,
                 myAudioQueue, prebuffer, emuRate, settingsVars,
                 ignoreOverflows, produced,
                 overflowed, enqRun, lastOp, ctl, wavData, wavDevice, mySpeed>>
  /\ wavPaused' = TRUE

\* A callback only reads and writes its buffer, the queue and the pull state.
CallbackFrame ==
  UNCHANGED <<myIsInitializedFlag, devHandles, devPaused, hwFreq, myVolumeFactor,
              myAudioQueue, prebuffer, emuRate, settingsVars,
              ignoreOverflows, produced,
              overflowed, enqRun, lastOp, ctl, clipVars>>

\* The driver calls back on a device that is open and not paused.  Without a
\* queue and a resampler the whole buffer is set to zero and the call is over.
CallbackEnter(len) ==
  /\ myIsInitializedFlag /\ ~devPaused /\ cbPc = "idle"
  /\ cbLength' = FloatLength(len)
  /\ cbI' = 0
  /\ cbPulls' = 0
  /\ resampled' = <<>>
  /\ gain' = <<>>
  /\ IF CallbackAttached(View)
       THEN /\ cbPc' = "fill"
            /\ cbBranch' = "resample"
            /\ stream' = [i \in 1..(len \div 4) |-> 0 - 1]
            /\ written' = {}
       ELSE /\ cbPc' = "idle"
            /\ cbBranch' = "silence"
            /\ stream' = [i \in 1..(len \div 4) |-> 0]
            /\ written' = 1..(len \div 4)
  /\ UNCHANGED <<myResampler, myUnderrun, myCurrentFragment, queue,
                 lastPull, consumed, streak, cycle, played, deqRun>>
  /\ CallbackFrame

\* Whether the consumer is in a run of successful pulls: it starts when a
\* pull obtains a fragment and ends when a pull finds the queue empty.
PullStreak(was, pulled, log) ==
  IF ~pulled THEN was
  ELSE IF log.frag # 0 THEN TRUE
  ELSE IF log.size = 0 THEN FALSE
  ELSE was

\* fillFragment, one destination sample per step.  A resampler built for a
\* device rate of 0 divides by zero: the process ends there.
FillStep ==
  /\ cbPc = "fill" /\ cbI < cbLength
  /\ myResampler.to > 0
  /\ LET r == FillSample(View)
     IN  /\ myResampler' = r.m.resampler
         /\ myUnderrun' = r.m.underrun
         /\ myCurrentFragment' = r.m.current
         /\ queue' = r.m.queue
         /\ stream' = [stream EXCEPT ![cbI + 1] = r.out]
         /\ resampled' = Append(resampled, [out |-> r.out, starved |-> r.starved])
         /\ written' = written \cup {cbI + 1}
         /\ cbPulls' = cbPulls + (IF r.pulled THEN 1 ELSE 0)
         /\ lastPull' = IF r.pulled
                          THEN [r.log EXCEPT !.streak = streak, !.cycle = cycle,
                                             !.played = played]
                          ELSE lastPull
         /\ consumed' = IF r.pulled /\ r.log.frag # 0
                          THEN Append(consumed, r.log.frag) ELSE consumed
         /\ streak' = PullStreak(streak, r.pulled, r.log)
         /\ cycle' = PullStreak(cycle, r.pulled, r.log)
         /\ played' = (played \/ (r.pulled /\ r.log.frag # 0))
         /\ deqRun' = IF r.pulled /\ r.log.frag # 0 THEN deqRun + 1 ELSE deqRun
  /\ cbI' = cbI + 1
  /\ UNCHANGED <<cbPc, cbLength, gain, cbBranch>>
  /\ CallbackFrame

FillDone ==
  /\ cbPc = "fill" /\ cbI >= cbLength
  /\ cbPc' = "volume"
  /\ cbI' = 0
  /\ UNCHANGED <<myResampler, myUnderrun, myCurrentFragment, queue, cbLength,
                 stream, written, resampled, gain, cbBranch, cbPulls,
                 lastPull, consumed, streak, cycle, played, deqRun>>
  /\ CallbackFrame

\* The volume loop, one sample per step (the factor is read unsynchronised).
VolumeStep ==
  /\ cbPc = "volume" /\ cbI < cbLength
  /\ stream' = [stream EXCEPT ![cbI + 1] = ApplyVolume(stream[cbI + 1], myVolumeFactor)]
  /\ gain' = Append(gain, myVolumeFactor)
  /\ cbI' = cbI + 1
  /\ UNCHANGED <<myResampler, myUnderrun, myCurrentFragment, queue, cbPc,
                 cbLength, written, resampled, cbBranch, cbPulls,
                 lastPull, consumed, streak, cycle, played, deqRun>>
  /\ CallbackFrame

\* The buffer goes back to the driver.
CallbackReturn ==
  /\ cbPc = "volume" /\ cbI >= cbLength
  /\ cbPc' = "idle"
  /\ cbLength' = 0
  /\ cbI' = 0
  /\ stream' = <<>>
  /\ written' = {}
  /\ resampled' = <<>>
  /\ gain' = <<>>
  /\ cbBranch' = "none"
  /\ cbPulls' = 0
  /\ lastPull' = NoPull
  /\ UNCHANGED <<myResampler, myUnderrun, myCurrentFragment, queue,
                 consumed, streak, cycle, played, deqRun>>
  /\ CallbackFrame

\* ------------------------------------------------------------- the producer
\* The emulation core enqueues its next fragment; it waits while the queue
\* is full and overflows are not ignored.
Enqueue ==
  /\ produced < MaxFrags
  /\ ~EnqueueBlocked(queue, ignoreOverflows)
  /\ \E policy \in OverflowPolicies :
       queue' = QueueEnqueue(queue, produced + 1, policy)
  /\ produced' = produced + 1
  /\ overflowed' = (overflowed \/ Len(queue) >= Capacity)
  /\ enqRun' = IF ~ignoreOverflows THEN 0
                ELSE IF deqRun > 0 THEN 1
                ELSE enqRun + 1
  /\ deqRun' = 0
  /\ UNCHANGED <<soundVars, settingsVars, ignoreOverflows,
                 cbVars, lastPull, consumed, streak, cycle, lastOp,
                 played, ctl, clipVars>>

\* ------------------------------------------------------ the control thread
\* What a control operation leaves alone.  An operation that pauses, resumes
\* or closes the device waits for a callback in flight to return.
ControlFrame ==
  UNCHANGED <<produced, cbVars, lastPull, consumed,
              overflowed, streak, enqRun, deqRun, wavData, wavDevice>>

\* The process has not ended and the sound object has not been destroyed.
ProcessAlive == cbPc # "crashed" /\ lastWav.op # "destroy"

DeviceIdle == ProcessAlive /\ (myIsInitializedFlag => cbPc = "idle")

\* What the operation found, for the record of the last control operation.
CtlRecord(op, arg) ==
  [NoCtl EXCEPT !.op = op, !.arg = arg, !.init = myIsInitializedFlag,
                !.paused = devPaused, !.enabled = enabled,
                !.valid = ValidQuality(quality)]

\* open() replaces the queue / resampler association when sound is enabled;
\* the device is running then unless open() has just re-opened it.
OpenRecord(m, inFlight) ==
  [CtlRecord("open", 0) EXCEPT
     !.reopened = NeedsReopen(View),
     !.threw = m.threw,
     !.pausedAfter = m.paused,
     !.live = enabled /\ ~NeedsReopen(View) /\ myIsInitializedFlag /\ ~devPaused,
     !.inFlight = inFlight]

\* open() called with no callback in flight.
OpenStep(pre, rate, ok, freq) ==
  /\ DeviceIdle
  /\ Commit(open(View, pre, rate, ok, freq))
  /\ cycle' = IF enabled THEN FALSE ELSE cycle
  /\ played' = IF enabled THEN FALSE ELSE played
  /\ ControlFrame

Open(pre, rate, ok, freq) ==
  /\ OpenStep(pre, rate, ok, freq)
  /\ UNCHANGED <<lastOp, ctl>>

OpenCtl(pre, rate, ok, freq) ==
  /\ OpenStep(pre, rate, ok, freq)
  /\ ctl' = OpenRecord(open(View, pre, rate, ok, freq), FALSE)
  /\ UNCHANGED lastOp

\* open() called on a running device that it does not re-open, while a
\* callback is in flight: nothing in open() waits for the callback before the
\* queue, the fragment handle and the resampler are replaced.  A callback that
\* is inside fillFragment of the resampler being destroyed goes on with
\* whatever it finds, or the process ends.
OpenInFlight(pre, rate) ==
  /\ myIsInitializedFlag /\ ~devPaused /\ ~NeedsReopen(View)
  /\ cbPc \in {"fill", "volume"}
  /\ Commit(open(View, pre, rate, TRUE, hwFreq))
  /\ cycle' = IF enabled THEN FALSE ELSE cycle
  /\ played' = IF enabled THEN FALSE ELSE played
  /\ ctl' = OpenRecord(open(View, pre, rate, TRUE, hwFreq), TRUE)
  /\ cbPc' \in (IF enabled /\ ValidQuality(quality) /\ cbPc = "fill"
                  THEN {cbPc, "crashed"} ELSE {cbPc})
  /\ UNCHANGED <<cbLength, cbI, stream, written, resampled, gain, cbBranch,
                 cbPulls, produced, lastPull, consumed, overflowed, streak,
                 enqRun, deqRun, lastOp, wavData, wavDevice>>

SetVolumeStep(v) ==
  /\ Commit(setVolume(View, v))
  /\ UNCHANGED <<cycle, played>>
  /\ ControlFrame

SetVolume(v) ==
  /\ SetVolumeStep(v)
  /\ lastOp' = [op |-> "setVolume", arg |-> v, before |-> volume,
                initBefore |-> myIsInitializedFlag,
                initAfter |-> myIsInitializedFlag, overflow |-> FALSE]
  /\ UNCHANGED ctl

SetVolumeCtl(v) ==
  /\ SetVolumeStep(v)
  /\ ctl' = CtlRecord("setVolume", v)
  /\ UNCHANGED lastOp

AdjustVolumeStep(direction, raw, pre, rate, ok, freq) ==
  /\ DeviceIdle
  /\ Commit(adjustVolume(View, direction, raw, pre, rate, ok, freq))
  /\ UNCHANGED <<cycle, played>>
  /\ ControlFrame

AdjustVolume(direction, pre, rate, ok, freq) ==
  /\ \E raw \in AdjustOutcomes(volume, direction) :
       /\ AdjustVolumeStep(direction, raw, pre, rate, ok, freq)
       /\ lastOp' = [op |-> "adjustVolume", arg |-> direction,
                     before |-> volume,
                     initBefore |-> myIsInitializedFlag,
                     initAfter |->
                       adjustVolume(View, direction, raw, pre, rate, ok, freq).init,
                     overflow |-> AdjustOverflows(volume, direction)]
  /\ UNCHANGED ctl

AdjustVolumeCtl(direction, pre, rate, ok, freq) ==
  /\ \E raw \in AdjustOutcomes(volume, direction) :
       AdjustVolumeStep(direction, raw, pre, rate, ok, freq)
  /\ ctl' = CtlRecord("adjustVolume", direction)
  /\ UNCHANGED lastOp

MuteStep(enable) ==
  /\ Commit(mute(View, enable))
  /\ UNCHANGED <<cycle, played>>
  /\ ControlFrame

Mute(enable) ==
  /\ MuteStep(enable)
  /\ UNCHANGED <<lastOp, ctl>>

MuteCtl(enable) ==
  /\ MuteStep(enable)
  /\ ctl' = CtlRecord("mute", IF enable THEN 1 ELSE 0)
  /\ UNCHANGED lastOp

ToggleMuteStep ==
  /\ Commit(toggleMute(View))
  /\ UNCHANGED <<cycle, played>>
  /\ ControlFrame

ToggleMute ==
  /\ ToggleMuteStep
  /\ UNCHANGED <<lastOp, ctl>>

ToggleMuteCtl ==
  /\ ToggleMuteStep
  /\ ctl' = CtlRecord("toggleMute", 0)
  /\ UNCHANGED lastOp

PauseStep(enable) ==
  /\ DeviceIdle
  /\ Commit(pause(View, enable))
  /\ UNCHANGED <<cycle, played>>
  /\ ControlFrame

Pause(enable) ==
  /\ PauseStep(enable)
  /\ UNCHANGED <<lastOp, ctl>>

PauseCtl(enable) ==
  /\ PauseStep(enable)
  /\ ctl' = CtlRecord("pause", IF enable THEN 1 ELSE 0)
  /\ UNCHANGED lastOp

SetEnabledStep(enable) ==
  /\ DeviceIdle
  /\ Commit(setEnabled(View, enable))
  /\ UNCHANGED <<cycle, played>>
  /\ ControlFrame

SetEnabled(enable) ==
  /\ SetEnabledStep(enable)
  /\ UNCHANGED <<lastOp, ctl>>

SetEnabledCtl(enable) ==
  /\ SetEnabledStep(enable)
  /\ ctl' = CtlRecord("setEnabled", IF enable THEN 1 ELSE 0)
  /\ UNCHANGED lastOp

\* The settings dialog writes the AudioSettings.  A callback reads no setting,
\* so a write made while one is in flight is the same as one made before it.
SetEnabledSetting(en) ==
  /\ cbPc = "idle"
  /\ Commit([View EXCEPT !.enabled = en])
  /\ UNCHANGED <<cycle, played, lastOp, ctl>>
  /\ ControlFrame

SetQualitySetting(q) ==
  /\ cbPc = "idle"
  /\ Commit([View EXCEPT !.quality = q])
  /\ UNCHANGED <<cycle, played, lastOp, ctl>>
  /\ ControlFrame

\* ----------------------------------------------------------- specifications
\* ------------------------------------------------- clip player operations
\* What the clip player operations leave alone.
ClipFrame ==
  UNCHANGED <<soundVars, settingsVars, queueVars, produced, cbVars, histVars,
              mySpeed>>

\* SoundSDL::playWav.
PlayWav(file, position, length, load, devOk) ==
  /\ ProcessAlive
  /\ LET r == play(ClipView, file, position, length, load, devOk)
     IN  /\ ClipCommit(r.w)
         /\ lastWav' = [op |-> "play", ok |-> r.ok, cause |-> r.cause,
                        file |-> file, position |-> position,
                        length |-> length,
                        load |-> IF NeedsLoad(ClipView, file) THEN load
                                 ELSE "none",
                        afterStop |-> (lastWav.op = "stop" /\ file = myFilename),
                        opened |-> r.opened,
                        len |-> 0, used |-> 0, outside |-> FALSE,
                        mixed |-> 0, out |-> <<>>]
  /\ ClipFrame

\* SoundSDL::stopWav.
StopWav ==
  /\ ProcessAlive
  /\ ClipCommit(stop(ClipView))
  /\ lastWav' = [NoWav EXCEPT !.op = "stop"]
  /\ ClipFrame

\* SoundSDL::~SoundSDL, and with it the destructor of its clip player: the
\* main device is closed if one was opened, then the clip player is destroyed.
\* Nothing runs on the object afterwards.
Destroy ==
  /\ DeviceIdle
  /\ ClipCommit(destroyWav(ClipView))
  /\ devHandles' = CloseDevice(View).handles
  /\ devPaused' = TRUE
  /\ lastWav' = [NoWav EXCEPT !.op = "destroy"]
  /\ UNCHANGED <<myIsInitializedFlag, hwFreq, myVolumeFactor, myAudioQueue,
                 myResampler, myUnderrun, myCurrentFragment, prebuffer, emuRate,
                 settingsVars, queueVars, produced, cbVars, histVars, mySpeed>>

\* WavHandlerSDL::callback, on the running clip device.  Reading frames that
\* are not in the buffer held is undefined: the callback mixes what it finds
\* there, or the process ends.  So is a conversion to a rate that is the
\* result of a division by zero: the callback goes on with what it gets, or
\* the process ends.
WavCallback(len, mult) ==
  /\ ProcessAlive
  /\ wavDevice /\ ~wavPaused
  /\ LET used == ClipConsumed(ClipView, mySpeed, len)
     IN  /\ ClipCommit(processWav(ClipView, mySpeed, len, mult))
         /\ lastWav' = [NoWav EXCEPT !.op = "callback", !.len = len,
                                     !.used = used,
                                     !.outside = ReadsOutside(ClipView, used),
                                     !.mixed = ClipMixed(ClipView, mySpeed, len),
                                     !.out = ClipOutput(ClipView, mySpeed, len,
                                                        myVolumeFactor)]
         /\ cbPc' \in IF \/ ReadsOutside(ClipView, used)
                         \/ Stalls(ClipView, mySpeed, len)
                        THEN {cbPc, "crashed"} ELSE {cbPc}
  /\ UNCHANGED <<soundVars, settingsVars, queueVars, produced, histVars, mySpeed,
                 cbLength, cbI, stream, written, resampled, gain, cbBranch,
                 cbPulls>>

Lengths == {4 * n : n \in 1..MaxLength}
Prebuffers == 1..MaxPrebuffer

Callback ==
  \/ \E len \in Lengths : CallbackEnter(len)
  \/ FillStep
  \/ FillDone
  \/ VolumeStep
  \/ CallbackReturn

\* The producer, the callback and the operations that attach the queue and
\* start and stop the device: the data path.
Next ==
  \/ Enqueue
  \/ Callback
  \/ \E pre \in Prebuffers, ok \in BOOLEAN : Open(pre, emuRate, ok, sampleRate)
  \/ \E b \in BOOLEAN : Pause(b)
  \/ \E en \in BOOLEAN : SetEnabledSetting(en)

Spec == Init /\ [][Next]_vars

\* The callback at work for every resampling quality and rate pair, with the
\* volume written while a callback is in flight.
NextCallback ==
  \/ Enqueue
  \/ Callback
  \/ \E rate \in Rates, freq \in Rates : Open(1, rate, TRUE, freq)
  \/ \E b \in BOOLEAN : Mute(b)
  \/ Pause(FALSE)

SpecCallback == Init /\ [][NextCallback]_vars

\* The volume operations of the control thread, for requests in and out of
\* range.  A uInt32 request above Int32Max is compared with 100 like
\* Int32Max itself.
VolumeInputs == {0, 99, 100, 101, Int32Max}
Directions == {-1, 0, 1, Two30, (0 - Two30) - 1}

NextVolume ==
  \/ \E v \in VolumeInputs : SetVolume(v)
  \/ \E d \in Directions, ok \in BOOLEAN :
       AdjustVolume(d, prebuffer, emuRate, ok, sampleRate)
  \/ \E b \in BOOLEAN : Mute(b)
  \/ ToggleMute
  \/ \E b \in BOOLEAN : SetEnabled(b)
  \/ \E en \in BOOLEAN : SetEnabledSetting(en)

SpecVolume == Init /\ [][NextVolume]_vars

\* The control thread alone, with a record kept of its last operation.
ControlVolumes == {0, 100}
ControlDirections == {-50, 50}

NextControl ==
  \/ \E ok \in BOOLEAN, freq \in Rates : OpenCtl(prebuffer, emuRate, ok, freq)
  \/ \E v \in ControlVolumes : SetVolumeCtl(v)
  \/ \E d \in ControlDirections, ok \in BOOLEAN :
       AdjustVolumeCtl(d, prebuffer, emuRate, ok, sampleRate)
  \/ \E b \in BOOLEAN : MuteCtl(b)
  \/ ToggleMuteCtl
  \/ \E b \in BOOLEAN : SetEnabledCtl(b)
  \/ \E b \in BOOLEAN : PauseCtl(b)
  \/ \E en \in BOOLEAN : SetEnabledSetting(en)
  \/ \E q \in Qualities : SetQualitySetting(q)

SpecControl == Init /\ [][NextControl]_vars

\* open() against the main device callback: the device re-opened or not, the
\* quality valid or not, a callback in flight or not.
NextSwap ==
  \/ \E ok \in BOOLEAN, freq \in Rates : OpenCtl(prebuffer, emuRate, ok, freq)
  \/ OpenInFlight(prebuffer, emuRate)
  \/ \E b \in BOOLEAN : Pause(b)
  \/ \E en \in BOOLEAN : SetEnabledSetting(en)
  \/ \E q \in Qualities : SetQualitySetting(q)
  \/ Callback

SpecSwap == Init /\ [][NextSwap]_vars

\* The clip player: play, stop and the clip device's callback, with the
\* operations of the main device that reach it (open sets its speed, pause
\* pauses its device).
Positions == {0, 1, MaxClip + 1}
ClipLengths == {0, MaxClip - 1}
ClipCallbackLengths == 1..2
LenMults == 1..2

NextClip ==
  \/ \E file \in Assets, position \in Positions, length \in ClipLengths,
        load \in LoadOutcomes, devOk \in BOOLEAN :
       \* one choice stands for all where play calls no SDL_LoadWAV, and
       \* where it calls no SDL_OpenAudioDevice
       /\ ~NeedsLoad(ClipView, file) => load = "ok"
       /\ (wavDevice \/ (NeedsLoad(ClipView, file) /\ load # "ok")) => devOk
       /\ PlayWav(file, position, length, load, devOk)
  \/ StopWav
  \/ \E len \in ClipCallbackLengths, mult \in LenMults : WavCallback(len, mult)
  \/ \E rate \in Rates : Open(prebuffer, rate, TRUE, sampleRate)
  \/ \E b \in BOOLEAN : Pause(b)
  \/ Destroy

\* The constructor opened the main device; sound is enabled.
InitClip ==
  /\ Init
  /\ myIsInitializedFlag /\ hwFreq = sampleRate
  /\ enabled /\ quality = "nearestNeighbour"

SpecClip == InitClip /\ [][NextClip]_vars

\* The volume factor and all that touch it: the control operations that write
\* it, at any point of a callback of the main device, and the two callbacks
\* that read it.
SharedVolumes == {0, 100, 101}

NextShared ==
  \/ \E v \in SharedVolumes : SetVolumeCtl(v)
  \/ \E d \in ControlDirections :
       AdjustVolumeCtl(d, prebuffer, emuRate, TRUE, sampleRate)
  \/ \E b \in BOOLEAN : Mute(b)
  \/ ToggleMute
  \/ \E b \in BOOLEAN : SetEnabled(b)
  \/ Open(prebuffer, emuRate, TRUE, sampleRate)
  \/ Callback
  \/ \E file \in Assets : PlayWav(file, 0, 0, "ok", TRUE)
  \/ \E len \in ClipCallbackLengths : WavCallback(len, 1)

SpecShared == InitClip /\ [][NextShared]_vars

\* The two devices side by side: the main device fed by the producer, and a
\* clip playing on the clip device.
NextPair ==
  \/ Enqueue
  \/ Callback
  \/ Open(prebuffer, emuRate, TRUE, sampleRate)
  \/ \E file \in Assets : PlayWav(file, 0, 0, "ok", TRUE)
  \/ \E len \in ClipCallbackLengths : WavCallback(len, 1)

SpecPair == InitClip /\ [][NextPair]_vars

\* The main device over its life: opened by the constructor or not, re-opened
\* by open() (directly, or through adjustVolume) with the driver granting or
\* refusing the device, paused and resumed, calling back, and closed by the
\* destructor.
NextDevice ==
  \/ \E ok \in BOOLEAN, freq \in Rates : OpenCtl(prebuffer, emuRate, ok, freq)
  \/ \E d \in ControlDirections, ok \in BOOLEAN :
       AdjustVolumeCtl(d, prebuffer, emuRate, ok, sampleRate)
  \/ \E b \in BOOLEAN : PauseCtl(b)
  \/ Callback
  \/ Destroy

SpecDevice == Init /\ [][NextDevice]_vars

\* Sound switched off and on in the settings while the pipeline plays: the
\* producer, the callback, and open() called after each change of the setting.
NextDisabled ==
  \/ Enqueue
  \/ Callback
  \/ OpenCtl(prebuffer, emuRate, TRUE, sampleRate)
  \/ \E en \in BOOLEAN : SetEnabledSetting(en)

SpecDisabled == InitClip /\ [][NextDisabled]_vars

\* pause() of the main device against the clip player: clips played and
\* stopped while the main device is paused or running, and open(), which
\* resumes the main device.
NextPause ==
  \/ \E b \in BOOLEAN : PauseCtl(b)
  \/ \E rate \in Rates : OpenCtl(prebuffer, rate, TRUE, sampleRate)
  \/ \E file \in Assets, devOk \in BOOLEAN :
       /\ wavDevice => devOk
       /\ PlayWav(file, 0, 0, "ok", devOk)
  \/ StopWav
  \/ \E len \in ClipCallbackLengths : WavCallback(len, 1)

SpecPause == InitClip /\ [][NextPause]_vars

\* A clip played to its end: play, stop, the callbacks of the clip device,
\* and open() setting the speed from the timing's audio sample rate, a rate
\* low enough for round(len / speed) to be 0 included.  The driver goes on
\* calling back for as long as the clip device is open and running; that an
\* undefined operation ends the process is possible and never certain.
ClipRates == Rates \cup {1}
ClipPositions == {0, 1}
\* The length of the buffer the driver hands the clip callback: the same at
\* every call on one device.
ClipBufferLength == 1

NextCompletion ==
  \/ \E file \in Assets, position \in ClipPositions, length \in ClipLengths :
       PlayWav(file, position, length, "ok", TRUE)
  \/ StopWav
  \/ WavCallback(ClipBufferLength, 1)
  \/ \E rate \in ClipRates : Open(prebuffer, rate, TRUE, sampleRate)

SpecCompletion ==
  /\ InitClip
  /\ [][NextCompletion]_vars
  /\ WF_vars(WavCallback(ClipBufferLength, 1) /\ cbPc' = cbPc)

\* =================================================================== claims

\* C1. Underrun hysteresis: a pull made in underrun state (after a pull that
\* obtained nothing, or after open) with fewer fragments queued than the
\* prebuffer count returns no fragment, calls no dequeue and leaves the queue
\* as it is; a pull made in underrun state with at least the prebuffer count
\* queued dequeues exactly one fragment and returns it.
C1_UnderrunHysteresis ==
  (lastPull.valid /\ lastPull.underrun) =>
    IF lastPull.size < lastPull.pre
      THEN lastPull.frag = 0 /\ lastPull.dequeues = 0 /\ lastPull.removed = 0
      ELSE lastPull.frag # 0 /\ lastPull.dequeues = 1 /\ lastPull.removed = 1

\* A second pull of one callback resumes at a threshold above one: the pull
\* before it obtained nothing.
C1_Witness ==
  /\ lastPull.valid /\ lastPull.underrun
  /\ lastPull.pre > 1 /\ lastPull.size = lastPull.pre
  /\ lastPull.frag # 0
  /\ cbPulls > 1

\* C2 as stated.  Once a pull has obtained a fragment, the underrun flag is
\* clear and every later pull that finds the queue non-empty dequeues exactly
\* one fragment, whatever the prebuffer count, until a pull finds the queue
\* empty.
C2_Original ==
  /\ (lastPull.valid /\ lastPull.frag # 0) => ~myUnderrun
  /\ (lastPull.valid /\ lastPull.streak /\ lastPull.size > 0) =>
       (lastPull.frag # 0 /\ lastPull.dequeues = 1 /\ lastPull.removed = 1)

\* C2 as amended.  The same, until a pull finds the queue empty or open()
\* attaches the queue again: open() sets the underrun flag, and the next pull
\* waits for the prebuffer count once more.
C2_OnePerPull ==
  /\ (lastPull.valid /\ lastPull.frag # 0) =>
       (~myUnderrun /\ myCurrentFragment = lastPull.frag)
  /\ (lastPull.valid /\ lastPull.cycle /\ lastPull.size > 0) =>
       (lastPull.frag # 0 /\ lastPull.dequeues = 1 /\ lastPull.removed = 1)

\* A pull within a run of successful pulls takes the only fragment of a queue
\* that is below the prebuffer count.
C2_Witness ==
  /\ lastPull.valid /\ lastPull.cycle /\ ~lastPull.underrun
  /\ lastPull.size > 0 /\ lastPull.size < lastPull.pre
  /\ lastPull.frag # 0

\* C3. FIFO: as long as no enqueue has overflowed, the fragments handed to
\* the consumer, followed by those still queued, are 1, 2, ..., produced in
\* that order: nothing is reordered, duplicated or skipped.
C3_Fifo ==
  ~overflowed => (consumed \o queue = [i \in 1..produced |-> i])

C3_Witness ==
  /\ ~overflowed
  /\ Len(consumed) >= 3
  /\ queue # <<>>

\* C4. In overflow-ignore mode the producer is never made to wait, however
\* many fragments it enqueues in a row, and the dequeues that follow a run of
\* enqueues return at most Capacity fragments.
C4_IgnoreOverflow ==
  /\ ignoreOverflows => ~EnqueueBlocked(queue, ignoreOverflows)
  /\ deqRun <= Capacity
  /\ (ignoreOverflows /\ enqRun > Capacity) => overflowed

\* More than Capacity fragments were enqueued in a row in overflow-ignore
\* mode, and Capacity dequeues emptied the queue.
C4_Witness ==
  /\ ignoreOverflows
  /\ enqRun > Capacity
  /\ deqRun = Capacity
  /\ queue = <<>>

\* C5. The number of fragments available for dequeue is between 0 and the
\* capacity of the queue, in every reachable state.
C5_QueueBounded ==
  QueueSize(queue) >= 0 /\ QueueSize(queue) <= Capacity

\* The queue is full after an overflow, with the consumer at work.
C5_Witness ==
  /\ QueueSize(queue) = Capacity
  /\ overflowed
  /\ consumed # <<>>

\* C6. fillFragment writes exactly the requested number of samples, the
\* whole buffer, for every rate pair and quality; a sample for which no
\* source fragment was to be had is silence, and the callback goes on to the
\* volume loop all the same (starvation is no failure).
C6_FillsWholeBuffer ==
  /\ cbPc = "fill" => (Len(resampled) = cbI /\ written = 1..cbI /\ cbI <= Len(stream))
  /\ cbPc = "volume" =>
       /\ Len(resampled) = Len(stream)
       /\ written = 1..Len(stream)
       /\ \A i \in 1..Len(stream) :
            resampled[i].starved => (resampled[i].out = 0 /\ (cbI < i => stream[i] = 0))

\* A buffer was filled with every pull of the call starved, at a device rate
\* other than the emulation's.
C6_Witness ==
  /\ cbPc = "volume"
  /\ Len(stream) = MaxLength
  /\ cbPulls = MaxLength
  /\ \A i \in 1..Len(stream) : resampled[i].starved
  /\ myResampler.from # myResampler.to

\* C7. A callback that finds no queue or no resampler attached sets the whole
\* buffer to silence and pulls nothing; only a callback that finds both goes
\* to the resampler.
C7_SilenceWhenDetached ==
  /\ cbBranch = "resample" => (myAudioQueue /\ myResampler.kind # "none")
  /\ cbBranch = "silence" =>
       /\ cbPc = "idle"
       /\ written = 1..Len(stream)
       /\ \A i \in 1..Len(stream) : stream[i] = 0
       /\ cbPulls = 0
       /\ lastPull = NoPull

\* A callback ran with a queue that holds fragments but no resampler.
C7_Witness ==
  /\ cbBranch = "silence"
  /\ Len(stream) = MaxLength
  /\ myAudioQueue /\ myResampler.kind = "none"
  /\ queue # <<>>

\* C8. The volume is applied after the resampler has filled the buffer:
\* while the resampler fills, no sample has been scaled; in the volume loop
\* every sample done is the resampler's sample times the volume factor read
\* for it, and every sample not yet done is the resampler's sample.  What the
\* nearest-neighbour resampler writes is a source sample or silence, whatever
\* the volume.
C8_VolumeAfterResampling ==
  /\ cbPc = "fill" =>
       /\ gain = <<>>
       /\ \A i \in 1..cbI : stream[i] = resampled[i].out
  /\ cbPc = "volume" =>
       /\ Len(gain) = cbI
       /\ \A i \in 1..Len(stream) :
            stream[i] = IF i <= cbI THEN resampled[i].out * gain[i]
                        ELSE resampled[i].out
  /\ (cbBranch = "resample" /\ myResampler.kind = "nearest") =>
       \A i \in 1..Len(resampled) :
         resampled[i].out \in
           {0} \cup {Sample(f, k) : f \in 1..produced, k \in 0..(FragmentSize - 1)}

\* Two samples of one buffer were scaled by different volume factors.
C8_Witness ==
  /\ cbPc = "volume" /\ cbI = cbLength /\ cbLength > 1
  /\ gain[1] # gain[2] /\ gain[2] # 0
  /\ resampled[1].out # 0 /\ resampled[2].out # 0
  /\ stream[2] = resampled[2].out * gain[2]

\* The clamp of p + 2 * direction to [0, 100] over the integers, for
\* 0 <= p <= 100 and any direction.
ExactClamp(p, direction) ==
  IF direction > 50 THEN 100
  ELSE IF direction < 0 - 50 THEN 0
  ELSE clamp(p + 2 * direction, 0, 100)

\* C9 as stated.  After setVolume(v) the stored volume is min(v, 100).
C9_Original ==
  lastOp.op = "setVolume" => volume = Min(lastOp.arg, 100)

\* C9 as amended.  After setVolume(v) on an initialized device the stored
\* volume is v when v <= 100; a request above 100 is ignored, not clamped,
\* and so is every request on a device that is not initialized: the stored
\* volume is then what it was.
C9_SetVolumeInRange ==
  lastOp.op = "setVolume" =>
    volume = IF lastOp.initBefore /\ lastOp.arg <= 100
               THEN lastOp.arg ELSE lastOp.before

\* A request above 100 on an initialized device left a volume below 100.
C9_Witness ==
  /\ lastOp.op = "setVolume"
  /\ lastOp.initBefore /\ lastOp.arg > 100
  /\ lastOp.before < 100 /\ volume = lastOp.before

\* C10 as stated.  After adjustVolume(direction) the stored volume is
\* clamp(p + 2 * direction, 0, 100), for every direction and prior volume p.
C10_Original ==
  lastOp.op = "adjustVolume" =>
    volume = ExactClamp(lastOp.before, lastOp.arg)

\* C10, what does hold.  After adjustVolume(direction) returns with the device
\* initialized, and for a direction whose p + 2 * direction fits 32 signed
\* bits, the stored volume is clamp(p + 2 * direction, 0, 100); when the
\* device is not initialized on return the stored volume is still p; in
\* every case the stored volume stays within [0, 100].
C10_AdjustVolume ==
  lastOp.op = "adjustVolume" =>
    /\ (lastOp.initAfter /\ ~lastOp.overflow) =>
         volume = ExactClamp(lastOp.before, lastOp.arg)
    /\ ~lastOp.initAfter => volume = lastOp.before
    /\ volume >= 0 /\ volume <= 100

\* One step up from 99 stored 100 on an initialized device.
C10_Witness ==
  /\ lastOp.op = "adjustVolume"
  /\ lastOp.initAfter /\ ~lastOp.overflow
  /\ lastOp.arg = 1 /\ lastOp.before = 99
  /\ volume = 100

\* C11 as stated.  setVolume(0) and mute(true) both leave the volume factor at
\* exactly 0, from any state.
C11_Original ==
  /\ (ctl.op = "setVolume" /\ ctl.arg = 0) => myVolumeFactor = 0
  /\ (ctl.op = "mute" /\ ctl.arg = 1) => myVolumeFactor = 0

\* C11 as amended.  mute(true) leaves the volume factor at exactly 0 from any
\* state; setVolume(0) does so on an initialized device (on a device that is
\* not initialized it does nothing, and the factor stays what it was).
C11_MuteAtZero ==
  /\ (ctl.op = "setVolume" /\ ctl.arg = 0 /\ ctl.init) =>
       (myVolumeFactor = 0 /\ volume = 0)
  /\ (ctl.op = "mute" /\ ctl.arg = 1) => myVolumeFactor = 0

\* mute(true) zeroed the factor of a device that is not initialized, with a
\* stored volume above 0 and sound enabled.
C11_Witness ==
  /\ ctl.op = "mute" /\ ctl.arg = 1
  /\ ~ctl.init /\ ctl.enabled /\ volume > 0
  /\ myAudioQueue
  /\ myVolumeFactor = 0

\* The state of the pipeline that the control operations work on.
pipelineVars ==
  <<devPaused, myVolumeFactor, myAudioQueue, myResampler, myUnderrun,
    myCurrentFragment>>

\* C13 as stated.  While the pipeline is not initialized, every operation
\* leaves the pipeline state as it is: a step from a not-initialized state to
\* a not-initialized state changes nothing of it.
C13_Original ==
  [][(~myIsInitializedFlag /\ ~myIsInitializedFlag') =>
       UNCHANGED pipelineVars]_vars

\* C13, what does hold.  On a pipeline that is not initialized, setVolume and
\* pause change nothing, and no operation resumes the device.
C13_NoOpsWhenClosed ==
  [][(~myIsInitializedFlag /\ ~myIsInitializedFlag') =>
       /\ devPaused' = devPaused
       /\ (ctl'.op \in {"setVolume", "pause"} /\ ctl' # ctl) =>
            UNCHANGED pipelineVars]_vars

\* C17. After every open(), the queue ignores overflows exactly when sound is
\* disabled in the settings: with the device re-opened or not, with the queue
\* attached or not, and when the resampler construction throws.
C17_IgnoreOverflowsFollowsEnabled ==
  ctl.op = "open" => (ignoreOverflows = ~ctl.enabled)

\* An open() with sound disabled, on a device it did not re-open and with a
\* queue attached by an earlier open(), turned overflow-ignore mode on.
C17_Witness ==
  /\ ctl.op = "open" /\ ~ctl.enabled /\ ~ctl.reopened
  /\ myAudioQueue
  /\ ignoreOverflows

C15_Original ==
  (ctl.op = "open" /\ ctl.enabled) => ~ctl.inFlight

\* C15, what does hold.  An open() that re-opens the device makes the
\* replacement on a paused or closed device; a callback is in flight during a
\* replacement only on a running device that open() did not re-open.
C15_SwapAfterReopen ==
  /\ (ctl.op = "open" /\ ctl.reopened) => (~ctl.live /\ ~ctl.inFlight)
  /\ (ctl.op = "open" /\ ctl.inFlight /\ ctl.enabled) => ctl.live

C18_Original ==
  lastWav.op = "play" =>
    /\ lastWav.position > AssetLength(lastWav.file) => ~lastWav.ok
    /\ lastWav.load \in {"missing", "corrupt"} => ~lastWav.ok
    /\ lastWav.ok => (myBuffer = lastWav.file /\ wavDevice)

\* C18, what does hold.  play returns false when the offset is beyond the
\* length of the buffer held and when SDL_LoadWAV fails, and returns true only
\* with some asset in the buffer and the clip device open.
C18_PlayResult ==
  lastWav.op = "play" =>
    /\ lastWav.position > myLength => ~lastWav.ok
    /\ lastWav.load \in {"missing", "corrupt"} => ~lastWav.ok
    /\ lastWav.ok => (myBuffer # 0 /\ wavDevice)
    /\ lastWav.cause = "device" => (myBuffer # 0 /\ ~wavDevice)

\* A play step that returns false because SDL_LoadWAV failed.
PlayFailsLoading ==
  /\ lastWav'.op = "play" /\ lastWav'.cause = "load"
  /\ PlayWav(lastWav'.file, lastWav'.position, lastWav'.length, lastWav'.load,
             FALSE)

\* C19 as stated.  A play that fails because the asset cannot be loaded leaves
\* the buffer, the cached filename, the read cursor and the remaining count as
\* they were, and the cursor valid if it was.
C19_Original ==
  [][PlayFailsLoading =>
       /\ UNCHANGED <<myBuffer, myFilename, myPos, myRemaining>>
       /\ posLive' = posLive]_vars

\* C19, what does hold.  A play that fails because the asset cannot be loaded
\* leaves the cached filename, the read cursor, the remaining count and the
\* device as they were; the buffer held before is freed.
C19_FailedLoadFreesBuffer ==
  [][PlayFailsLoading =>
       /\ UNCHANGED <<myFilename, myPos, myRemaining, wavDevice, wavPaused>>
       /\ myBuffer' = 0 /\ ~posLive']_vars

\* C20 as stated.  After stop() no clip device is open, no buffer is held and
\* the remaining count is 0.
C20_Original ==
  lastWav.op = "stop" => (~wavDevice /\ myBuffer = 0 /\ myRemaining = 0)

\* C20, what does hold.  After stop() no buffer and no scratch buffer is held;
\* the device is closed and the remaining count zeroed when a buffer was held.
C20_StopFreesBuffers ==
  /\ lastWav.op = "stop" =>
       (myBuffer = 0 /\ ~posLive /\ ~myCvtBuffer /\ myCvtBufferSize = 0)
  /\ [][(StopWav /\ myBuffer # 0) => (~wavDevice' /\ myRemaining' = 0)]_vars
  /\ [][(StopWav /\ myBuffer = 0) =>
          UNCHANGED <<myFilename, myLength, myRemaining, myPos, wavDevice,
                      wavPaused>>]_vars

\* C12. Whatever open, setVolume, adjustVolume, mute, toggleMute and
\* setEnabled calls were made, the volume factor is between 0 and 1 (0 and
\* 100 percent); and no step of the main device callback or of the clip
\* device callback changes it.
C12_VolumeFactorShared ==
  /\ [](myVolumeFactor \in 0..100)
  /\ [][(cbVars' # cbVars \/ (lastWav'.op = "callback" /\ wavData' # wavData))
          => myVolumeFactor' = myVolumeFactor]_vars

\* The factor is at its maximum, the main device callback is about to apply
\* it, and the clip device callback has just mixed frames at it.
C12_Witness ==
  /\ myVolumeFactor = 100
  /\ cbPc = "volume"
  /\ lastWav.op = "callback" /\ lastWav.used > 0
  /\ ctl.op \in {"setVolume", "adjustVolume"}

\* C21 as stated.  After the clip player is destroyed no clip device is open
\* and no decoded buffer is still allocated.
C21_Original ==
  lastWav.op = "destroy" => (~wavDevice /\ myBuffer = 0)

\* C21, what does hold.  After the clip player is destroyed no clip device is
\* open and no scratch buffer is held; the decoded buffer is freed when a
\* device was open, and is left as it was when none was.
C21_DestroyWithDevice ==
  /\ lastWav.op = "destroy" => (~wavDevice /\ ~myCvtBuffer)
  /\ [][(Destroy /\ wavDevice) => myBuffer' = 0]_vars
  /\ [][(Destroy /\ ~wavDevice) => myBuffer' = myBuffer]_vars

\* C22 as stated.  A play() that comes next after stop(), for the asset whose
\* name is cached, calls no SDL_LoadWAV.
C22_Original ==
  (lastWav.op = "play" /\ lastWav.afterStop) => lastWav.load = "none"

\* C22, what does hold.  A play() that comes next after stop(), for the asset
\* whose name is cached, decodes the asset again; when it returns true the
\* remaining count is the length asked for, cut at the end of the asset, or the
\* asset's whole length when the length asked for is 0.
C22_StopThenPlayReloads ==
  (lastWav.op = "play" /\ lastWav.afterStop) =>
    /\ lastWav.load # "none"
    /\ lastWav.ok =>
         /\ myBuffer = lastWav.file /\ myLength = AssetLength(lastWav.file)
         /\ myRemaining =
              ClipRemaining(lastWav.length, lastWav.position, myLength)

\* stop() was called on a buffer that was held and the same asset was played
\* again, with a length asked for that the asset has.
C22_Witness ==
  /\ lastWav.op = "play" /\ lastWav.afterStop /\ lastWav.ok
  /\ lastWav.load = "ok"
  /\ lastWav.length # 0 /\ myRemaining = lastWav.length

\* A play step for the asset whose name is cached, with a buffer held.
PlaySameAsset ==
  /\ lastWav'.op = "play" /\ lastWav'.file = myFilename /\ myBuffer # 0
  /\ \E devOk \in BOOLEAN :
       PlayWav(lastWav'.file, lastWav'.position, lastWav'.length, "ok", devOk)

\* C23. A play() for the asset whose name is cached, with a buffer held, calls
\* no SDL_LoadWAV and no SDL_FreeWAV: buffer, length and cached name stay as
\* they are.  With the offset within the length the cursor is set to the
\* offset and the remaining count to the length asked for (cut at the end of
\* the asset, the whole asset for 0); with the offset beyond it neither moves.
C23_ReplayKeepsBuffer ==
  [][PlaySameAsset =>
       /\ lastWav'.load = "none"
       /\ UNCHANGED <<myBuffer, myLength, myFilename, myCvtBuffer, myCvtBufferSize>>
       /\ IF lastWav'.position <= myLength
            THEN /\ myPos' = lastWav'.position /\ posLive'
                 /\ myRemaining' =
                      ClipRemaining(lastWav'.length, lastWav'.position, myLength)
            ELSE UNCHANGED <<myPos, myRemaining, posLive>>]_vars

\* The asset playing was played again from another offset: nothing was
\* loaded and the cursor is at the new offset.
C23_Witness ==
  /\ lastWav.op = "play" /\ lastWav.ok /\ lastWav.load = "none"
  /\ lastWav.position = 1 /\ myPos = 1
  /\ myBuffer = lastWav.file /\ wavDevice

\* A play step.
PlayStep ==
  /\ lastWav'.op = "play"
  /\ \E load \in LoadOutcomes, devOk \in BOOLEAN :
       PlayWav(lastWav'.file, lastWav'.position, lastWav'.length, load, devOk)

\* C24. The clip player holds one device handle or none.  play() gets a new
\* handle only when it holds none, and with one held it keeps that one: the
\* plays between two stops open the device once.
C24_OneDevice ==
  [][PlayStep =>
       /\ lastWav'.opened => (~wavDevice /\ wavDevice')
       /\ wavDevice => (wavDevice' /\ ~lastWav'.opened)
       /\ lastWav'.ok => wavDevice']_vars

\* Another asset was loaded and played on the device an earlier play opened.
C24_Witness ==
  /\ lastWav.op = "play" /\ lastWav.ok /\ ~lastWav.opened
  /\ lastWav.load = "ok"
  /\ wavDevice /\ ~wavPaused

\* A callback of the clip device.
WavCallbackStep ==
  /\ lastWav'.op = "callback"
  /\ \E mult \in LenMults : WavCallback(lastWav'.len, mult)

\* C25. Every clip callback leaves the whole driver buffer written: silence
\* in every frame, with clip data mixed into the first frames only.  With a
\* remaining count of 0 no frame has clip data, and the cursor, the remaining
\* count and the scratch buffer are as they were.
C25_SilenceFirst ==
  /\ [](lastWav.op = "callback" =>
          /\ Len(lastWav.out) = lastWav.len
          /\ lastWav.mixed <= lastWav.len
          /\ \A i \in 1..lastWav.len :
               /\ lastWav.out[i].silence
               /\ i > lastWav.mixed => lastWav.out[i].mix = 0)
  /\ [][(WavCallbackStep /\ myRemaining = 0) =>
          /\ \A i \in 1..lastWav'.len : lastWav'.out[i].mix = 0
          /\ UNCHANGED <<myPos, myRemaining, myCvtBuffer, myCvtBufferSize,
                         myBuffer, posLive>>]_vars

\* A callback ran on a clip played to its end, at a volume that is not 0: the
\* buffer is all silence.
C25_Witness ==
  /\ lastWav.op = "callback" /\ lastWav.used = 0 /\ lastWav.len = 2
  /\ myRemaining = 0 /\ myBuffer # 0 /\ myPos > 0
  /\ myVolumeFactor > 0
  /\ \A i \in 1..2 : lastWav.out[i] = [silence |-> TRUE, mix |-> 0]

ConvertingStep ==
  WavCallbackStep /\ myRemaining > 0 /\ mySpeed.num # mySpeed.den

C28_ScratchNeverShrinks ==
  /\ [][lastWav'.op = "callback" =>
          \A mult \in LenMults :
            WavCallback(lastWav'.len, mult) =>
              LET need == lastWav'.used * mult
                  converts == myRemaining > 0 /\ mySpeed.num # mySpeed.den
              IN  /\ myCvtBufferSize' >= myCvtBufferSize
                  /\ myCvtBuffer => myCvtBuffer'
                  /\ myCvtBufferSize' # myCvtBufferSize =>
                       (converts /\ need > myCvtBufferSize
                          /\ myCvtBufferSize' = need)
                  /\ converts => (myCvtBuffer' /\ myCvtBufferSize' >= need)
                  /\ ~converts =>
                       UNCHANGED <<myCvtBuffer, myCvtBufferSize>>]_vars
  /\ [][PlayStep => UNCHANGED <<myCvtBuffer, myCvtBufferSize>>]_vars

\* A converting callback took 1 source frame with a scratch buffer of 4 left
\* by an earlier callback, and kept it.
C28_Witness ==
  /\ lastWav.op = "callback" /\ lastWav.used = 1
  /\ mySpeed.num # mySpeed.den
  /\ myCvtBuffer /\ myCvtBufferSize = 4

\* C29 as stated.  play() does not free or replace the decoded buffer, and
\* does not rewrite the cursor and the remaining count, while the clip device
\* is open and running.
C29_Original ==
  [][(PlayStep /\ wavDevice /\ ~wavPaused) =>
       UNCHANGED <<myBuffer, myPos, myRemaining>>]_vars

\* C29, what does hold.  stop() frees the decoded buffer only together with
\* closing the device; play() writes the buffer, the cursor and the remaining
\* count whatever the state of the device, which it neither closes nor pauses.
C29_OnlyStopClosesDevice ==
  /\ [][(StopWav /\ myBuffer' # myBuffer) => ~wavDevice']_vars
  /\ [][(PlayStep /\ wavDevice) =>
          (wavDevice' /\ wavPaused' = wavPaused)]_vars

\* A step of a callback of the main device.
MainCallbackStep == cbVars' # cbVars /\ lastWav' = lastWav

\* C30. A step of the main device callback leaves the clip player as it is:
\* decoded buffer, cursor, remaining count, scratch buffer, device and its
\* pause state.  A clip device callback leaves the queue, the fragment held,
\* the underrun flag and the resampler as they are.
C30_CallbacksIndependent ==
  /\ [][MainCallbackStep => UNCHANGED clipVars]_vars
  /\ [][WavCallbackStep =>
          UNCHANGED <<queue, ignoreOverflows, myAudioQueue, myCurrentFragment,
                      myUnderrun, myResampler>>]_vars

\* Both devices at work: the main device callback is resampling a fragment it
\* holds, and the clip device callback has taken a frame with more remaining.
C30_Witness ==
  /\ cbPc = "fill" /\ cbI > 0 /\ myCurrentFragment # 0
  /\ lastWav.op = "callback" /\ lastWav.used > 0
  /\ myRemaining > 0

\* C31. After every successful play, with length 0 and with position equal to
\* the asset length included, the read cursor offset plus remaining is at
\* most the decoded length, so that no callback reads past the end of the
\* decoded buffer.
C31_Original ==
  (lastWav.op = "play" /\ lastWav.ok) => myPos + myRemaining <= myLength

\* C31, what holds: a successful play that gives a length, or that starts at
\* offset 0, leaves cursor plus remaining within the decoded length; one with
\* length 0 leaves the whole decoded length remaining from whatever offset.
C31_WithinBufferWithLength ==
  (lastWav.op = "play" /\ lastWav.ok)
    => /\ (lastWav.length # 0 \/ lastWav.position = 0)
            => myPos + myRemaining <= myLength
       /\ lastWav.length = 0 => myRemaining = myLength

\* C31: a callback on a buffer that is held and was not freed reads frames
\* past its end.
C31_ReadsPastEnd ==
  /\ lastWav.op = "callback" /\ lastWav.outside
  /\ myBuffer # 0 /\ posLive
  /\ myPos > myLength

\* C32. While the sound object lives, the initialized flag is true exactly
\* when one main device handle is open in the driver: openDevice closes the
\* handle it holds before it opens a new one, a refused open leaves no handle
\* and the flag false; the destructor closes the handle once and leaves none.
C32_FlagIffHandle ==
  /\ devHandles \in {0, 1}
  /\ lastWav.op # "destroy" => (myIsInitializedFlag <=> devHandles = 1)
  /\ lastWav.op = "destroy" => devHandles = 0

\* open() has re-opened a device that was open, and the driver granted it.
C32_Witness ==
  /\ ctl.op = "open" /\ ctl.reopened /\ ctl.init
  /\ myIsInitializedFlag /\ devHandles = 1

\* C33 as stated.  After an open() that found audio disabled, and until the
\* next open(), no callback of the main device goes to the resampler (which
\* is what dequeues): every callback writes silence.
C33_Original ==
  (ctl.op = "open" /\ ~ctl.enabled) => cbBranch # "resample"

\* C33, what does hold.  An open() that finds audio disabled and does not
\* re-open the device leaves the queue and resampler attached, the fragment
\* held, the pause state and the volume factor as they were, and sets the
\* queue to ignore overflows; callbacks are silent after it when no earlier
\* open() had attached a queue and a resampler.
C33_DisabledOpenKeepsPipeline ==
  /\ [][(ctl' # ctl /\ ctl'.op = "open" /\ ~ctl'.enabled /\ ~ctl'.reopened)
          => (/\ UNCHANGED <<myAudioQueue, myResampler, myCurrentFragment,
                             myUnderrun, devPaused, myVolumeFactor, queue>>
              /\ ignoreOverflows')]_vars
  /\ [][(ctl.op = "open" /\ ~ctl.enabled /\ cbBranch' = "resample")
          => (myAudioQueue /\ myResampler.kind # "none")]_vars

\* C33: after an open() that found audio disabled, a callback has dequeued a
\* fragment and is scaling its samples by a volume factor that is not 0.
C33_PlaysAfterDisabledOpen ==
  /\ ctl.op = "open" /\ ~ctl.enabled
  /\ cbPc = "volume" /\ cbI > 0
  /\ lastPull.valid /\ lastPull.frag # 0
  /\ myVolumeFactor # 0
  /\ \E i \in 1..cbI : stream[i] # 0

\* The fragment obtained last before the latest pull, since the queue was
\* attached by open(); 0 when none was.
FragmentBeforePull ==
  LET n == Len(consumed) - (IF lastPull.frag # 0 THEN 1 ELSE 0)
  IN  IF lastPull.played /\ n > 0 THEN consumed[n] ELSE 0

\* C34. A pull that obtains no fragment (the queue empty, or in underrun with
\* fewer queued than the prebuffer count) leaves the fragment handle and the
\* queue as they were and sets the underrun flag; the handle a pull passes to
\* dequeue is the fragment obtained last, or empty when none was obtained
\* since open() attached the queue.
C34_FailedPullKeepsState ==
  /\ (lastPull.valid /\ lastPull.frag = 0) =>
       /\ lastPull.size = 0 \/ (lastPull.underrun /\ lastPull.size < lastPull.pre)
       /\ myCurrentFragment = lastPull.prev
       /\ lastPull.removed = 0
       /\ myUnderrun
  /\ (lastPull.valid /\ lastPull.dequeues = 1) =>
       lastPull.prev = FragmentBeforePull

\* A pull in underrun found a fragment queued, fewer than the prebuffer
\* count, and obtained nothing, with a fragment held from before.
C34_Witness ==
  /\ lastPull.valid /\ lastPull.frag = 0
  /\ lastPull.underrun /\ lastPull.size > 0 /\ lastPull.size < lastPull.pre
  /\ lastPull.prev # 0 /\ myCurrentFragment = lastPull.prev
  /\ queue # <<>>

\* C35 as stated.  From every state with a volume factor that is not 0, one
\* toggleMute leaves the factor 0 and a second one right after it restores
\* the factor there was before the first.
C35_Original ==
  myVolumeFactor # 0 =>
    /\ toggleMute(View).factor = 0
    /\ toggleMute(toggleMute(View)).factor = myVolumeFactor

\* C35 as amended.  From every state with a volume factor that is not 0, one
\* toggleMute leaves the factor 0; a second one right after it restores the
\* factor when the main device is initialized and sound is enabled in the
\* settings, and leaves it 0 otherwise.
C35_ToggleTwice ==
  myVolumeFactor # 0 =>
    /\ toggleMute(View).factor = 0
    /\ toggleMute(toggleMute(View)).factor =
         IF myIsInitializedFlag /\ enabled THEN myVolumeFactor ELSE 0

\* toggleMute has just unmuted: the factor is back at the stored volume.
C35_Witness ==
  /\ ctl.op = "toggleMute" /\ ctl.init /\ ctl.enabled
  /\ myVolumeFactor # 0 /\ myVolumeFactor = volume

\* C36 as stated.  While the main device is paused by pause(true), with no
\* pause(false) since, an open clip device is paused, whatever plays and stops
\* of clips come in between.
C36_Original ==
  (ctl.op = "pause" /\ ctl.arg = 1 /\ ctl.init /\ wavDevice) => wavPaused

\* C36, what does hold.  pause() on an initialized main device sets the pause
\* state of the clip device that is open at that moment; a clip device starts
\* running only by pause(false), called directly or at the end of open(), or
\* by a play() that opens it, whatever the pause state of the main device.
C36_PauseReachesOpenClipDevice ==
  /\ [][(ctl' # ctl /\ ctl'.op = "pause" /\ ctl'.init /\ wavDevice)
          => (wavPaused' = (ctl'.arg = 1) /\ devPaused' = (ctl'.arg = 1))]_vars
  /\ [][(wavDevice' /\ ~wavPaused' /\ ~(wavDevice /\ ~wavPaused))
          => \/ (lastWav'.op = "play" /\ lastWav'.opened)
             \/ (ctl'.op = "pause" /\ ctl'.arg = 0)
             \/ (ctl'.op = "open" /\ ~ctl'.pausedAfter)]_vars

\* C36: the main device is paused by pause(true) and the clip device, opened
\* by a play() since, has called back and mixed clip frames.
C36_ClipPlaysWhilePaused ==
  /\ ctl.op = "pause" /\ ctl.arg = 1 /\ ctl.init /\ devPaused
  /\ wavDevice /\ ~wavPaused
  /\ lastWav.op = "callback" /\ lastWav.mixed > 0

\* adjustVolume(direction) called with sound disabled in the settings, a
\* direction that is not 0, no overflow and a resulting percent above 0.
AdjustVolumeWhileDisabled ==
  /\ ~enabled
  /\ \E d \in Directions \ {0}, ok \in BOOLEAN :
       /\ ~AdjustOverflows(volume, d)
       /\ AdjustPercent(volume + d * 2) > 0
       /\ AdjustVolume(d, prebuffer, emuRate, ok, sampleRate)

\* C37 as stated.  adjustVolume with a direction that is not 0 and a
\* resulting percent above 0, called while audio is disabled, enables audio:
\* afterwards the volume factor is the percent and the main device runs.
C37_Original ==
  [][AdjustVolumeWhileDisabled =>
       /\ myVolumeFactor' = AdjustPercent(volume + lastOp'.arg * 2)
       /\ ~devPaused']_vars

\* C37, what does hold.  Such a call leaves audio disabled in the settings
\* and the volume factor 0; the percent is stored when the device is
\* initialized on return; the main device runs afterwards when it was
\* initialized and open() did not re-open it, and is paused or closed
\* otherwise.
C37_AdjustVolumeStaysMuted ==
  [][AdjustVolumeWhileDisabled =>
       /\ ~enabled'
       /\ myVolumeFactor' = 0
       /\ myIsInitializedFlag' => volume' = AdjustPercent(volume + lastOp'.arg * 2)
       /\ ~devPaused' <=> (myIsInitializedFlag /\ ~NeedsReopen(View))]_vars

\* C38 as stated.  With frames remaining, every callback of the clip device
\* decreases the remaining count, and unless plays and stops keep coming the
\* count reaches 0, at every speed.
C38_Original ==
  /\ [][(WavCallbackStep /\ myRemaining > 0) => myRemaining' < myRemaining]_vars
  /\ \/ []<><<PlayStep \/ StopWav>>_vars
     \/ (myRemaining > 0) ~> (myRemaining = 0)

\* C38, what does hold.  A callback whose round(len / speed) is at least 1,
\* or that runs at speed 1, decreases a remaining count above 0; one whose
\* round(len / speed) is 0 leaves the count and the cursor as they are.
\* Unless plays and stops keep coming, a count above 0 reaches 0, or the
\* speed is one where a callback can consume nothing, or the process ends.
C38_CompletesUnlessStalled ==
  /\ [][(WavCallbackStep /\ myRemaining > 0) =>
          IF Stalls(ClipView, mySpeed, lastWav'.len)
            THEN UNCHANGED <<myRemaining, myPos>>
            ELSE myRemaining' < myRemaining]_vars
  /\ \/ []<><<PlayStep \/ StopWav>>_vars
     \/ (myRemaining > 0) ~>
          \/ myRemaining = 0
          \/ Stalls(ClipView, mySpeed, ClipBufferLength)
          \/ ~ProcessAlive

\* C38: callbacks come and consume nothing, with frames remaining.
C38_StalledCallback ==
  /\ lastWav.op = "callback" /\ lastWav.used = 0
  /\ myRemaining > 0
  /\ ProcessAlive
====
